---- MODULE Spec2Model ----
(***************************************************************************)
(* A model of roszcz/trpo, src/src/main.py: the policy-gradient training   *)
(* loop (main), the rollout aggregator (run_policy), the trajectory        *)
(* collector (run_episode) and the trajectory-processing passes            *)
(* (add_value, add_disc_sum_rew, add_advantage, build_train_set).          *)
(*                                                                         *)
(* Numbers.  NumPy float64 values are modelled as exact rationals          *)
(* <<n, d>> (d > 0, lowest terms); <<0, 0>> stands for nan.  Rounding is   *)
(* not modelled.  `/` is Python 3 true division.                           *)
(*                                                                         *)
(* Arrays.  A NumPy array is [shape |-> <<..>>, data |-> <<..>>] with the  *)
(* data in row-major order, so that reshape, append and concatenate are    *)
(* modelled by what they do to shape and data.                             *)
(*                                                                         *)
(* Collaborators.  The environment, the policy and the value functions are *)
(* outside the file; each call to one of them either raises or returns a   *)
(* value of its contract drawn from a small set.  An exception is never    *)
(* caught in main.py, so a raise ends the run (pc = "aborted").            *)
(***************************************************************************)
EXTENDS Integers, Sequences, FiniteSets, TLC

(***************************************************************************)
(* Bounds of the model                                                     *)
(***************************************************************************)
MaxEpLen == 2        \* the environment reports done at this step at the latest
MaxMinSteps == 2     \* min_steps is drawn from -1 .. MaxMinSteps
MaxMinEpisodes == 2  \* min_episodes is drawn from -1 .. MaxMinEpisodes
MaxIter == 2         \* num_iter is drawn from 0 .. MaxIter

(***************************************************************************)
(* Program constants                                                       *)
(***************************************************************************)
ObsScale == 3        \* obs / 3.0
Horizon == 2000      \* step / 2000

(***************************************************************************)
(* Rationals                                                               *)
(***************************************************************************)
Abs(x) == IF x < 0 THEN -x ELSE x

RECURSIVE GCD(_, _)
GCD(a, b) == IF b = 0 THEN a ELSE GCD(b, a % b)

NaN == <<0, 0>>

Rat(n, d) ==
  IF d = 0 THEN NaN
  ELSE LET g == GCD(Abs(n), Abs(d))
           s == IF d < 0 THEN -1 ELSE 1
       IN  <<(s * n) \div g, (s * d) \div g>>

IsNaN(p) == p[2] = 0

RAdd(p, q) ==
  IF IsNaN(p) \/ IsNaN(q) THEN NaN
  ELSE LET l == (p[2] \div GCD(p[2], q[2])) * q[2]
       IN  Rat(p[1] * (l \div p[2]) + q[1] * (l \div q[2]), l)

RNeg(p) == <<-p[1], p[2]>>

RSub(p, q) == RAdd(p, RNeg(q))

RMul(p, q) ==
  IF IsNaN(p) \/ IsNaN(q) THEN NaN
  ELSE LET g1 == GCD(Abs(p[1]), q[2])
           g2 == GCD(Abs(q[1]), p[2])
       IN  Rat((p[1] \div g1) * (q[1] \div g2), (p[2] \div g2) * (q[2] \div g1))

RDiv(p, q) ==
  IF IsNaN(p) \/ IsNaN(q) \/ q[1] = 0 THEN NaN
  ELSE RMul(p, Rat(q[2], q[1]))

RECURSIVE RSum(_)
RSum(s) == IF s = <<>> THEN <<0, 1>> ELSE RAdd(s[1], RSum(Tail(s)))

\* np.mean: the sum divided by the count; nan for an empty input
RMean(s) == IF s = <<>> THEN NaN ELSE RDiv(RSum(s), <<Len(s), 1>>)

(***************************************************************************)
(* NumPy arrays                                                            *)
(***************************************************************************)
Arr(shape, data) == [shape |-> shape, data |-> data]

Vec(data) == Arr(<<Len(data)>>, data)

EmptyArr == Arr(<<0>>, <<>>)

\* x.reshape((1, -1))
Reshape1(x) == Arr(<<1, Len(x.data)>>, x.data)

\* x / c, elementwise
DivScalar(x, c) ==
  Arr(x.shape, [k \in 1..Len(x.data) |-> RDiv(x.data[k], <<c, 1>>)])

\* np.append(x, [[v]], axis=1) for a one-row x
AppendCol(x, v) == Arr(<<1, x.shape[2] + 1>>, Append(x.data, v))

RECURSIVE ConcatData(_)
ConcatData(list) ==
  IF list = <<>> THEN <<>> ELSE list[1].data \o ConcatData(Tail(list))

RECURSIVE SumDim0(_)
SumDim0(list) ==
  IF list = <<>> THEN 0 ELSE list[1].shape[1] + SumDim0(Tail(list))

\* np.concatenate(list) along axis 0, for a non-empty list of arrays
\* whose other dimensions agree
Concatenate(list) ==
  Arr(<<SumDim0(list)>> \o Tail(list[1].shape), ConcatData(list))

\* row k (1-based) of a two-dimensional array
Row(x, k) == SubSeq(x.data, (k - 1) * x.shape[2] + 1, k * x.shape[2])

Reverse(s) == [k \in 1..Len(s) |-> s[Len(s) + 1 - k]]

(***************************************************************************)
(* State                                                                   *)
(***************************************************************************)
VARIABLES
  pc,            \* position of the program
  failed,        \* the call that raised, "none" while none did
  \* main
  num_iter, gamma, i, log, train, displayed,
  \* run_policy
  min_steps, min_episodes, steps, episodes, trajectories,
  \* run_episode
  obs, observes, actions, rewards, done, step, episode,
  \* the environment: is an episode running, the raw observations it has
  \* returned in the running episode, the lengths of the episodes it has
  \* finished since run_policy was entered
  envActive, envRaw, envLens,
  \* the policy: the (row, sample) pairs of policy.sample in this episode
  sampleLog,
  \* the value function: number of fit calls, and the count at the time of
  \* the predictions of add_value
  vfFits, predictedAt,
  \* the operations main has performed in the current iteration, and the
  \* arguments of the last update or fit call
  oplog, callArgs,
  \* the gamma add_disc_sum_rew has last run with
  gammaUsed

mainVars == <<num_iter, gamma, i, log, train, displayed, vfFits, predictedAt,
              oplog, callArgs, gammaUsed>>
rpParams == <<min_steps, min_episodes>>
rpVars == <<steps, episodes, trajectories>>
epVars == <<obs, observes, actions, rewards, done, step, episode>>
envVars == <<envActive, envRaw, envLens, sampleLog>>
vars == <<pc, failed, mainVars, rpParams, rpVars, epVars, envVars>>

(***************************************************************************)
(* Exceptions: nothing in main.py catches one                              *)
(***************************************************************************)
\* the exception swallowed, the caller left where it was
RaiseRetried(call) == pc' = pc /\ failed' = call

Raise(call) == pc' = "aborted" /\ failed' = call

(***************************************************************************)
(* run_episode                                                             *)
(***************************************************************************)
\* the step column counted from 1
TransformObsFromOne(o, s) ==
  AppendCol(DivScalar(Reshape1(o), ObsScale), Rat(s + 1, Horizon))

\* a second application leaves an already transformed row alone
TransformObsOnce(o, s) ==
  IF Len(o.shape) = 2 THEN o
  ELSE AppendCol(DivScalar(Reshape1(o), ObsScale), Rat(s, Horizon))

\* lines 44-45: obs.astype(float64).reshape((1, -1)) / 3.0, then the
\* step / 2000 column appended
TransformObs(o, s) ==
  AppendCol(DivScalar(Reshape1(o), ObsScale), Rat(s, Horizon))

\* lines 50-51: a reward that is not a float is unwrapped by np.asscalar
CoerceReward(r) == IF r.kind = "float" THEN r.v ELSE r.v[1]

\* the episode is cut at the step that reaches min_steps
EpLoopCondTruncating == ~done /\ (step = 0 \/ steps + step < min_steps)

\* line 41: while not done
EpLoopCond == ~done

EpLocalsInit ==
  /\ observes = <<>> /\ actions = <<>> /\ rewards = <<>>
  /\ done = FALSE /\ step = 0 /\ obs = EmptyArr

\* line 37-40: env.reset() and the locals
EpReset(RawObsS) ==
  /\ pc = "ep_reset"
  /\ \/ /\ Raise("env.reset")
        /\ UNCHANGED <<mainVars, rpParams, rpVars, epVars, envVars>>
     \/ \E o \in RawObsS :
          /\ obs' = o
          /\ observes' = <<>> /\ actions' = <<>> /\ rewards' = <<>>
          /\ done' = FALSE /\ step' = 0
          /\ envActive' = TRUE /\ envRaw' = <<o>> /\ sampleLog' = <<>>
          /\ pc' = "ep_loop"
          /\ UNCHANGED <<failed, mainVars, rpParams, rpVars, episode, envLens>>

\* lines 41-53: one pass of the loop body
EpStep(RawObsS, ActS, RewS) ==
  /\ pc = "ep_loop"
  /\ EpLoopCond
  /\ LET tobs == TransformObs(obs, step) IN
     /\ observes' = Append(observes, tobs)
     /\ \/ /\ Raise("policy.sample")
           /\ obs' = tobs
           /\ UNCHANGED <<mainVars, rpParams, rpVars, actions, rewards, done,
                          step, episode, envVars>>
        \/ \E a \in ActS :
             /\ Raise("env.step")
             /\ obs' = tobs
             /\ sampleLog' = Append(sampleLog, <<tobs, a>>)
             /\ actions' = Append(actions, Reshape1(a))
             /\ UNCHANGED <<mainVars, rpParams, rpVars, rewards, done, step,
                            episode, envActive, envRaw, envLens>>
        \/ \E a \in ActS, o \in RawObsS, r \in RewS, d \in BOOLEAN :
             /\ Len(envRaw) >= MaxEpLen => d
             /\ sampleLog' = Append(sampleLog, <<tobs, a>>)
             /\ actions' = Append(actions, Reshape1(a))
             /\ obs' = o
             /\ rewards' = Append(rewards, CoerceReward(r))
             /\ done' = d
             /\ step' = step + 1
             /\ envRaw' = Append(envRaw, o)
             /\ envActive' = ~d
             /\ envLens' = IF d THEN Append(envLens, Len(envRaw)) ELSE envLens
             /\ UNCHANGED <<pc, failed, mainVars, rpParams, rpVars, episode>>

\* line 55: the three lists as arrays
EpReturn ==
  /\ pc = "ep_loop"
  /\ ~EpLoopCond
  /\ episode' = <<Concatenate(observes), Concatenate(actions), Vec(rewards)>>
  /\ pc' = "ep_return"
  /\ UNCHANGED <<failed, mainVars, rpParams, rpVars, obs, observes, actions,
                 rewards, done, step, envVars>>

(***************************************************************************)
(* run_policy                                                              *)
(***************************************************************************)
\* the loop entered once whatever the thresholds
RpLoopCondAtLeastOnce ==
  episodes = 0 \/ ~(steps >= min_steps /\ episodes >= min_episodes)

\* line 72: while not (steps >= min_steps and episodes >= min_episodes)
RpLoopCond == ~(steps >= min_steps /\ episodes >= min_episodes)

\* lines 70-71
RunPolicyEnter ==
  /\ pc = "rp_call"
  /\ steps' = 0 /\ episodes' = 0 /\ trajectories' = <<>>
  /\ envLens' = <<>>
  /\ pc' = "rp_loop"
  /\ UNCHANGED <<failed, mainVars, rpParams, epVars, envActive, envRaw,
                 sampleLog>>

\* lines 72-73: the loop test, and the call of run_episode
RunPolicyLoop ==
  /\ pc = "rp_loop"
  /\ RpLoopCond
  /\ pc' = "ep_reset"
  /\ UNCHANGED <<failed, mainVars, rpParams, rpVars, epVars, envVars>>

Trajectory(o, a, r) == [observes |-> o, actions |-> a, rewards |-> r]

\* lines 73-79: the episode is counted and appended
RunPolicyCollect ==
  /\ pc = "ep_return"
  /\ steps' = steps + episode[1].shape[1]
  /\ episodes' = episodes + 1
  /\ trajectories' =
       Append(trajectories, Trajectory(episode[1], episode[2], episode[3]))
  /\ pc' = "rp_loop"
  \* the frame of run_episode is gone
  /\ obs' = EmptyArr /\ observes' = <<>> /\ actions' = <<>> /\ rewards' = <<>>
  /\ done' = FALSE /\ step' = 0
  /\ episode' = <<EmptyArr, EmptyArr, EmptyArr>>
  /\ UNCHANGED <<failed, mainVars, rpParams, envVars>>

MeanReward(trajs) ==
  RMean([k \in 1..Len(trajs) |-> RSum(trajs[k].rewards.data)])

\* lines 80-83: the log, and the return
RunPolicyReturn ==
  /\ pc = "rp_loop"
  /\ ~RpLoopCond
  /\ log' = [MeanReward |-> MeanReward(trajectories), Steps |-> steps]
  /\ pc' = "rp_done"
  /\ UNCHANGED <<failed, num_iter, gamma, i, train, displayed, vfFits,
                 predictedAt, oplog, callArgs, gammaUsed, rpParams, rpVars,
                 epVars, envVars>>

(***************************************************************************)
(* Trajectories are Python dicts: functions from keys to arrays            *)
(***************************************************************************)
HasKey(t, k) == k \in DOMAIN t

\* t[k] = v
SetKey(t, k, v) == [x \in DOMAIN t \cup {k} |-> IF x = k THEN v ELSE t[x]]

\* the index of the first trajectory that lacks one of the keys, 0 if none
FirstMissing(trajs, keys) ==
  LET bad == {j \in 1..Len(trajs) : ~(keys \subseteq DOMAIN trajs[j])}
  IN  IF bad = {} THEN 0 ELSE CHOOSE j \in bad : \A m \in bad : j <= m

\* the number of trajectories a pass gets through, when trajectory `stop`
\* raises (none does when stop = 0)
Done(trajs, stop) == IF stop = 0 THEN Len(trajs) ELSE stop - 1

(***************************************************************************)
(* add_disc_sum_rew                                                        *)
(***************************************************************************)
\* scipy.signal.lfilter(b, a, x) for b = [b0], a = [a0, a1]:
\* a0*y[n] = b0*x[n] - a1*y[n-1]
RECURSIVE LFilterAt(_, _, _, _)
LFilterAt(b, a, x, n) ==
  IF n = 0 THEN <<0, 1>>
  ELSE RDiv(RSub(RMul(b[1], x[n]), RMul(a[2], LFilterAt(b, a, x, n - 1))),
            a[1])

LFilter(b, a, x) == [n \in 1..Len(x) |-> LFilterAt(b, a, x, n)]

One == <<1, 1>>

\* line 96: gamma=1.0
DefaultGamma == One

\* the filter run forward in time
DiscSumRewForward(rew, g) ==
  LET scaled == [k \in 1..Len(rew.data) |-> RMul(rew.data[k], RSub(One, g))]
  IN  Vec(LFilter(<<One>>, <<One, RNeg(g)>>, scaled))

\* the rewards not scaled by 1 - gamma
DiscSumRewUnscaled(rew, g) ==
  Vec(Reverse(LFilter(<<One>>, <<One, RNeg(g)>>, Reverse(rew.data))))

\* lines 106-107
DiscSumRew(rew, g) ==
  LET scaled == [k \in 1..Len(rew.data) |-> RMul(rew.data[k], RSub(One, g))]
  IN  Vec(Reverse(LFilter(<<One>>, <<One, RNeg(g)>>, Reverse(scaled))))

\* lines 105-108
AddDiscSumRew(trajs, g) ==
  LET n == Done(trajs, FirstMissing(trajs, {"rewards"}))
      F(t) == SetKey(t, "disc_sum_rew", DiscSumRew(t["rewards"], g))
  IN  [j \in 1..Len(trajs) |-> IF j <= n THEN F(trajs[j]) ELSE trajs[j]]

(***************************************************************************)
(* add_value                                                               *)
(***************************************************************************)
\* val_func.predict(observes): one estimate per row.  Two value functions
\* stand for the states the collaborator can be in.
ValueFunctions == {"half", "stepindex"}

Predict(f, o) ==
  Vec([k \in 1..o.shape[1] |->
         IF f = "half" THEN <<1, 2>>
         ELSE RMul(Row(o, k)[o.shape[2]], <<Horizon, 1>>)])

\* lines 120-123, with the predictions of value function f; the call for
\* trajectory `stop` raises (none does when stop = 0)
AddValue(trajs, f, stop) ==
  LET n == Done(trajs, stop)
      F(t) == SetKey(t, "values", Predict(f, t["observes"]))
  IN  [j \in 1..Len(trajs) |-> IF j <= n THEN F(trajs[j]) ELSE trajs[j]]

(***************************************************************************)
(* add_advantage                                                           *)
(***************************************************************************)
ArrSub(x, y) == Arr(x.shape, [k \in 1..Len(x.data) |-> RSub(x.data[k], y.data[k])])

\* the difference clipped at 0
ArrClipSub(x, y) ==
  Arr(x.shape, [k \in 1..Len(x.data) |->
                  LET v == RSub(x.data[k], y.data[k])
                  IN  IF v[1] <= 0 THEN <<0, 1>> ELSE v])

\* line 133: disc_sum_rew - values
Advantage(dsr, values) == ArrSub(dsr, values)

AdvantageKeys == {"disc_sum_rew", "values"}

\* lines 132-133; a trajectory without one of the keys raises KeyError,
\* the trajectories before it are done
AddAdvantage(trajs) ==
  LET n == Done(trajs, FirstMissing(trajs, AdvantageKeys))
      F(t) == SetKey(t, "advantages", Advantage(t["disc_sum_rew"], t["values"]))
  IN  [j \in 1..Len(trajs) |-> IF j <= n THEN F(trajs[j]) ELSE trajs[j]]

(***************************************************************************)
(* build_train_set                                                         *)
(***************************************************************************)
Field(trajs, k) == [j \in 1..Len(trajs) |-> trajs[j][k]]

\* line 153: (advantages - mean) / (std + 1e-8).  The quotient is kept as
\* the pair <<advantage - mean, variance>>: the value it stands for is
\* c / (sqrt(variance) + 1e-8).
Normalize(adv) ==
  LET mean == RMean(adv.data)
      c == [k \in 1..Len(adv.data) |-> RSub(adv.data[k], mean)]
      var == RMean([k \in 1..Len(c) |-> RMul(c[k], c[k])])
  IN  Arr(adv.shape, [k \in 1..Len(c) |-> <<c[k], var>>])

TrainKeys == {"observes", "actions", "disc_sum_rew", "advantages"}

\* the actions taken from the trajectories in reverse order
BuildTrainSetMisaligned(trajs) ==
  [observes |-> Concatenate(Field(trajs, "observes")),
   actions |-> Concatenate(Reverse(Field(trajs, "actions"))),
   advantages |-> Normalize(Concatenate(Field(trajs, "advantages"))),
   disc_sum_rew |-> Concatenate(Field(trajs, "disc_sum_rew"))]

\* lines 148-155, for a non-empty batch that has the keys
BuildTrainSet(trajs) ==
  [observes |-> Concatenate(Field(trajs, "observes")),
   actions |-> Concatenate(Field(trajs, "actions")),
   advantages |-> Normalize(Concatenate(Field(trajs, "advantages"))),
   disc_sum_rew |-> Concatenate(Field(trajs, "disc_sum_rew"))]

\* np.concatenate raises ValueError for an empty list, and a missing key
\* raises KeyError
BuildTrainSetError(trajs) ==
  IF trajs = <<>> THEN "ValueError"
  ELSE IF FirstMissing(trajs, TrainKeys) # 0 THEN "KeyError"
  ELSE "none"

(***************************************************************************)
(* The passes as steps of a caller: main, or a caller that runs the        *)
(* passes on a batch in an order of its own.  `next` is where the caller   *)
(* goes on when the pass returns.                                          *)
(***************************************************************************)
Range(s) == {s[k] : k \in 1..Len(s)}

StepAddValue(VFs, next) ==
  /\ oplog' = Append(oplog, "add_value")
  /\ \/ \E f \in VFs, stop \in 1..Len(trajectories) :
          /\ trajectories' = AddValue(trajectories, f, stop)
          /\ Raise("val_func.predict")
          /\ UNCHANGED predictedAt
     \/ \E f \in VFs :
          /\ trajectories' = AddValue(trajectories, f, 0)
          /\ predictedAt' = vfFits
          /\ pc' = next
          /\ UNCHANGED failed
  /\ UNCHANGED <<num_iter, gamma, i, log, train, displayed, vfFits, callArgs,
                 gammaUsed, rpParams, steps, episodes, epVars, envVars>>

StepAddDiscSumRew(g, next) ==
  /\ oplog' = Append(oplog, "add_disc_sum_rew")
  /\ trajectories' = AddDiscSumRew(trajectories, g)
  /\ gammaUsed' = g
  /\ IF FirstMissing(trajectories, {"rewards"}) = 0
       THEN pc' = next /\ UNCHANGED failed
       ELSE Raise("KeyError")
  /\ UNCHANGED <<num_iter, gamma, i, log, train, displayed, vfFits,
                 predictedAt, callArgs, rpParams, steps, episodes, epVars,
                 envVars>>

StepAddAdvantage(next) ==
  /\ oplog' = Append(oplog, "add_advantage")
  /\ trajectories' = AddAdvantage(trajectories)
  /\ IF FirstMissing(trajectories, AdvantageKeys) = 0
       THEN pc' = next /\ UNCHANGED failed
       ELSE Raise("KeyError")
  /\ UNCHANGED <<num_iter, gamma, i, log, train, displayed, vfFits,
                 predictedAt, callArgs, gammaUsed, rpParams, steps, episodes,
                 epVars, envVars>>

StepBuildTrainSet(next) ==
  /\ oplog' = Append(oplog, "build_train_set")
  /\ LET e == BuildTrainSetError(trajectories) IN
       IF e = "none"
         THEN /\ train' = BuildTrainSet(trajectories)
              /\ pc' = next
              /\ UNCHANGED failed
         ELSE /\ Raise(e)
              /\ UNCHANGED train
  /\ UNCHANGED <<num_iter, gamma, i, log, displayed, vfFits, predictedAt,
                 callArgs, gammaUsed, rpParams, rpVars, epVars, envVars>>

(***************************************************************************)
(* disp_log                                                                *)
(***************************************************************************)
\* the keys a log can hold, in the order of log_keys.sort()
LogKeyOrder == <<"Iteration", "LinValFuncLoss", "MeanReward", "PolicyLoss",
                 "Steps", "ValFuncLoss">>

\* lines 160-167: the header, then the other keys in sorted order
DispLog(l) ==
  LET shown(k) == k \in DOMAIN l /\ k # "Iteration" /\ k # "MeanReward"
      keys == SelectSeq(LogKeyOrder, shown)
  IN  <<<<l["Iteration"], l["MeanReward"]>>>>
        \o [k \in 1..Len(keys) |-> <<keys[k], l[keys[k]]>>]

(***************************************************************************)
(* main                                                                    *)
(***************************************************************************)
\* line 179: for i in range(num_iter), and the call of run_policy
MainFor ==
  /\ pc = "main_for"
  /\ IF i + 1 < num_iter
       THEN /\ i' = i + 1
            /\ oplog' = <<"run_policy">>
            /\ pc' = "rp_call"
       ELSE /\ pc' = "main_done"
            /\ UNCHANGED <<i, oplog>>
  /\ UNCHANGED <<failed, num_iter, gamma, log, train, displayed, vfFits,
                 predictedAt, callArgs, gammaUsed, rpParams, rpVars, epVars,
                 envVars>>

\* line 181
MainSetIteration ==
  /\ pc = "rp_done"
  /\ log' = SetKey(log, "Iteration", i)
  /\ oplog' = Append(oplog, "log_iteration")
  /\ pc' = "add_value"
  /\ UNCHANGED <<failed, num_iter, gamma, i, train, displayed, vfFits,
                 predictedAt, callArgs, gammaUsed, rpParams, rpVars, epVars,
                 envVars>>

\* line 182
MainAddValue(VFs) == pc = "add_value" /\ StepAddValue(VFs, "add_disc_sum_rew")

\* line 183
MainAddDiscSumRew ==
  pc = "add_disc_sum_rew" /\ StepAddDiscSumRew(gamma, "add_advantage")

\* the advantage pass run in the place of the value pass
MainAddAdvantageFirst == pc = "add_value" /\ StepAddAdvantage("build_train_set")

\* line 184
MainAddAdvantage == pc = "add_advantage" /\ StepAddAdvantage("build_train_set")

\* line 185 (lines 186-197 print statistics of the four arrays)
MainBuildTrainSet ==
  pc = "build_train_set" /\ StepBuildTrainSet("policy_update")

\* line 198: log.update(policy.update(observes, actions, advantages))
MainPolicyUpdate ==
  /\ pc = "policy_update"
  /\ oplog' = Append(oplog, "policy.update")
  /\ callArgs' = <<"policy.update", train.observes, train.actions,
                   train.advantages>>
  /\ \/ Raise("policy.update") /\ UNCHANGED log
     \/ /\ log' = SetKey(log, "PolicyLoss", <<0, 1>>)
        /\ pc' = "val_fit"
        /\ UNCHANGED failed
  /\ UNCHANGED <<num_iter, gamma, i, train, displayed, vfFits, predictedAt,
                 gammaUsed, rpParams, rpVars, epVars, envVars>>

\* line 199: log.update(val_func.fit(observes, disc_sum_rew))
MainValFit ==
  /\ pc = "val_fit"
  /\ oplog' = Append(oplog, "val_func.fit")
  /\ callArgs' = <<"val_func.fit", train.observes, train.disc_sum_rew>>
  /\ \/ Raise("val_func.fit") /\ UNCHANGED <<log, vfFits>>
     \/ /\ log' = SetKey(log, "ValFuncLoss", <<0, 1>>)
        /\ vfFits' = vfFits + 1
        /\ pc' = "lin_val_fit"
        /\ UNCHANGED failed
  /\ UNCHANGED <<num_iter, gamma, i, train, displayed, predictedAt,
                 gammaUsed, rpParams, rpVars, epVars, envVars>>

\* line 200: log.update(lin_val_func.fit(observes, disc_sum_rew))
MainLinValFit ==
  /\ pc = "lin_val_fit"
  /\ oplog' = Append(oplog, "lin_val_func.fit")
  /\ callArgs' = <<"lin_val_func.fit", train.observes, train.disc_sum_rew>>
  /\ \/ Raise("lin_val_func.fit") /\ UNCHANGED log
     \/ /\ log' = SetKey(log, "LinValFuncLoss", <<0, 1>>)
        /\ pc' = "disp_log"
        /\ UNCHANGED failed
  /\ UNCHANGED <<num_iter, gamma, i, train, displayed, vfFits, predictedAt,
                 gammaUsed, rpParams, rpVars, epVars, envVars>>

\* line 201
MainDispLog ==
  /\ pc = "disp_log"
  /\ oplog' = Append(oplog, "disp_log")
  /\ displayed' = DispLog(log)
  /\ pc' = "main_for"
  /\ UNCHANGED <<failed, num_iter, gamma, i, log, train, vfFits, predictedAt,
                 callArgs, gammaUsed, rpParams, rpVars, epVars, envVars>>

(***************************************************************************)
(* Inputs                                                                  *)
(***************************************************************************)
\* raw observations of the environment (obs_dim = 1)
RawObs == {Vec(<<<<1, 1>>>>), Vec(<<<<6, 1>>>>)}

\* samples of the policy (act_dim = 1)
Acts == {Vec(<<<<0, 1>>>>), Vec(<<<<1, 1>>>>)}

\* rewards of env.step: a float, or a one-element array
StepRewards == {[kind |-> "float", v |-> <<-1, 1>>],
                [kind |-> "array", v |-> <<<<2, 1>>>>]}

\* one value of each, where only the lengths of the episodes matter
RawObsOne == {Vec(<<<<6, 1>>>>)}
ActsOne == {Vec(<<<<1, 1>>>>)}
StepRewardsOne == {[kind |-> "array", v |-> <<<<2, 1>>>>]}
ValueFunctionsOne == {"stepindex"}

\* discount factors
Gammas == {<<1, 2>>, <<2, 3>>, One}

NoTrain == [observes |-> EmptyArr, actions |-> EmptyArr,
            advantages |-> EmptyArr, disc_sum_rew |-> EmptyArr]

InitCommon ==
  /\ failed = "none"
  /\ log = [MeanReward |-> NaN, Steps |-> 0]
  /\ train = NoTrain
  /\ displayed = <<>>
  /\ EpLocalsInit
  /\ episode = <<EmptyArr, EmptyArr, EmptyArr>>
  /\ envActive = FALSE /\ envRaw = <<>> /\ envLens = <<>>
  /\ sampleLog = <<>>
  /\ vfFits = 0 /\ predictedAt = -1
  /\ oplog = <<>> /\ callArgs = <<>>
  /\ gammaUsed = NaN

(***************************************************************************)
(* Spec: main.  The thresholds of line 180 (2000 steps, 10 episodes) are    *)
(* scaled down to 1 .. MaxMinSteps and 1 .. MaxMinEpisodes.                *)
(***************************************************************************)
Init ==
  /\ InitCommon
  /\ steps = 0 /\ episodes = 0 /\ trajectories = <<>>
  /\ pc = "main_for"
  /\ num_iter \in 0..MaxIter
  /\ gamma \in {<<1, 2>>, One}
  /\ i = -1
  /\ min_steps \in 1..MaxMinSteps
  /\ min_episodes \in 1..MaxMinEpisodes

Next ==
  \/ MainFor
  \/ RunPolicyEnter
  \/ RunPolicyLoop
  \/ EpReset(RawObsOne)
  \/ EpStep(RawObsOne, ActsOne, StepRewardsOne)
  \/ EpReturn
  \/ RunPolicyCollect
  \/ RunPolicyReturn
  \/ MainSetIteration
  \/ MainAddValue(ValueFunctionsOne)
  \/ MainAddDiscSumRew
  \/ MainAddAdvantage
  \/ MainBuildTrainSet
  \/ MainPolicyUpdate
  \/ MainValFit
  \/ MainLinValFit
  \/ MainDispLog

Spec == Init /\ [][Next]_vars

(***************************************************************************)
(* SpecRP: run_policy called once with thresholds from a bounded set       *)
(***************************************************************************)
InitRP ==
  /\ InitCommon
  /\ steps = 0 /\ episodes = 0 /\ trajectories = <<>>
  /\ pc = "rp_call"
  /\ num_iter = 0 /\ gamma = One /\ i = -1
  /\ min_steps \in -1..MaxMinSteps
  /\ min_episodes \in -1..MaxMinEpisodes

NextRP ==
  \/ RunPolicyEnter
  \/ RunPolicyLoop
  \/ EpReset(RawObsOne)
  \/ EpStep(RawObsOne, ActsOne, StepRewards)
  \/ EpReturn
  \/ RunPolicyCollect
  \/ RunPolicyReturn

SpecRP == InitRP /\ [][NextRP]_vars

(***************************************************************************)
(* SpecEp: run_episode called once                                         *)
(***************************************************************************)
InitEp ==
  /\ InitCommon
  /\ steps = 0 /\ episodes = 0 /\ trajectories = <<>>
  /\ pc = "ep_reset"
  /\ num_iter = 0 /\ gamma = One /\ i = -1
  /\ min_steps = 0 /\ min_episodes = 0

NextEp ==
  \/ EpReset(RawObs)
  \/ EpStep(RawObs, Acts, StepRewards)
  \/ EpReturn

SpecEp == InitEp /\ [][NextEp]_vars

(***************************************************************************)
(* SpecProc: the passes run on a batch as run_policy returns it, each at   *)
(* most once, in any order                                                 *)
(***************************************************************************)
MaxBatch == 2        \* trajectories in a batch

RewardVals == {<<-1, 1>>, <<2, 1>>}

RewardSeqs == UNION {[1..T -> RewardVals] : T \in 1..MaxEpLen}

\* the trajectory run_policy returns for episode j with rewards rs
EpisodeTrajectory(j, rs) ==
  Trajectory(
    Concatenate([k \in 1..Len(rs) |-> TransformObs(Vec(<<<<j, 1>>>>), k - 1)]),
    Concatenate([k \in 1..Len(rs) |-> Reshape1(Vec(<<<<j + k, 1>>>>))]),
    Vec(rs))

Batches ==
  UNION {{[j \in 1..n |-> EpisodeTrajectory(j, r[j])] : r \in [1..n -> RewardSeqs]}
         : n \in 0..MaxBatch}

InitProc ==
  /\ InitCommon
  /\ trajectories \in Batches
  /\ episodes = Len(trajectories)
  /\ steps = SumDim0(Field(trajectories, "rewards"))
  /\ pc = "proc"
  /\ num_iter = 0 /\ gamma \in Gammas /\ i = -1
  /\ min_steps = 0 /\ min_episodes = 0

NotYet(op) == op \notin Range(oplog)

ProcAddValue ==
  /\ pc = "proc" /\ NotYet("add_value")
  /\ StepAddValue(ValueFunctions, "proc")

\* add_disc_sum_rew(trajectories, gamma), or add_disc_sum_rew(trajectories)
ProcAddDiscSumRew ==
  /\ pc = "proc" /\ NotYet("add_disc_sum_rew")
  /\ \E g \in {gamma, DefaultGamma} : StepAddDiscSumRew(g, "proc")

ProcAddAdvantage ==
  /\ pc = "proc" /\ NotYet("add_advantage")
  /\ StepAddAdvantage("proc")

ProcBuildTrainSet ==
  /\ pc = "proc" /\ NotYet("build_train_set")
  /\ StepBuildTrainSet("proc")

NextProc ==
  \/ ProcAddValue
  \/ ProcAddDiscSumRew
  \/ ProcAddAdvantage
  \/ ProcBuildTrainSet

SpecProc == InitProc /\ [][NextProc]_vars

(***************************************************************************)
(* Properties                                                              *)
(***************************************************************************)
Lens(trajs) == [j \in 1..Len(trajs) |-> trajs[j]["rewards"].shape[1]]

RECURSIVE SumInts(_)
SumInts(s) == IF s = <<>> THEN 0 ELSE s[1] + SumInts(Tail(s))

\* C1: when run_policy returns, the step count is >= min_steps and the
\* number of trajectories is >= min_episodes; the loop test is only reached
\* while no episode is running; every returned trajectory has all the steps
\* of its episode, from reset to the step that reported done.
C1_ThresholdsAndWholeEpisodes ==
  /\ pc \in {"rp_loop", "rp_done"} =>
       /\ ~envActive
       /\ Len(trajectories) = Len(envLens)
       /\ \A j \in 1..Len(trajectories) :
            /\ trajectories[j]["rewards"].shape[1] = envLens[j]
            /\ trajectories[j]["observes"].shape[1] = envLens[j]
            /\ trajectories[j]["actions"].shape[1] = envLens[j]
            /\ \A k \in 1..envLens[j] :
                 Row(trajectories[j]["observes"], k)[2] = Rat(k - 1, 2000)
  /\ pc = "rp_done" =>
       /\ steps >= min_steps
       /\ SumInts(envLens) >= min_steps
       /\ Len(trajectories) >= min_episodes

\* min_steps is reached in the middle of the last episode
C1_Witness ==
  /\ pc = "rp_done"
  /\ Len(trajectories) >= 2
  /\ LET last == trajectories[Len(trajectories)]["rewards"].shape[1]
     IN  steps - last < min_steps /\ min_steps < steps

\* C10: run_policy starts no episode once both thresholds are met, so it
\* returns at the first episode boundary where both hold; the log's Steps is
\* the sum of the lengths of the returned trajectories, which are as many as
\* the episodes run; with min_steps <= 0 and min_episodes <= 0 no episode is
\* run, the batch is empty and MeanReward is the mean of an empty list (nan).
C10_MinimalCollection ==
  /\ pc \in {"ep_reset", "ep_loop", "ep_return"} =>
       ~(steps >= min_steps /\ episodes >= min_episodes)
  /\ pc = "rp_done" =>
       /\ log["Steps"] = SumInts(Lens(trajectories))
       /\ Len(trajectories) = episodes
       /\ episodes = Len(envLens)
       /\ episodes > 0 =>
            LET last == trajectories[episodes]["rewards"].shape[1]
            IN  steps - last < min_steps \/ episodes - 1 < min_episodes
       /\ (min_steps <= 0 /\ min_episodes <= 0) =>
            /\ trajectories = <<>>
            /\ envRaw = <<>>
            /\ log["MeanReward"] = NaN

C10_Witness ==
  /\ pc = "rp_done"
  /\ min_steps <= 0 /\ min_episodes <= 0
  /\ trajectories = <<>>

\* C7: run_episode returns three arrays of the same length T, the number
\* of env.step calls; the environment has reported done at the last of
\* them; row k of observes is the observation the environment returned
\* before step k, divided by 3, with the column (k-1)/2000 appended (the
\* observation of the last step is not recorded); the action of row k is
\* the policy's sample for that row.
C7_EpisodeArrays ==
  pc = "ep_return" =>
    LET T == Len(envRaw) - 1 IN
    /\ T >= 1
    /\ ~envActive
    /\ episode[1].shape = <<T, 2>>
    /\ episode[2].shape = <<T, 1>>
    /\ episode[3].shape = <<T>>
    /\ Len(episode[3].data) = T
    /\ Len(sampleLog) = T
    /\ \A k \in 1..T :
         /\ Row(episode[1], k) =
              <<RDiv(envRaw[k].data[1], <<3, 1>>), Rat(k - 1, 2000)>>
         /\ sampleLog[k][1] = Arr(<<1, 2>>, Row(episode[1], k))
         /\ Row(episode[2], k) = sampleLog[k][2].data

C7_Witness ==
  /\ pc = "ep_return"
  /\ Len(envRaw) = MaxEpLen + 1
  /\ envRaw[1] # envRaw[2]
  /\ sampleLog[1][2] # sampleLog[2][2]

\* C8, as amended: every recorded row is the transform of the raw
\* observation and step index it was made from; the transform applied again
\* to such a row, with the same step index, gives a different, longer row:
\* the entries divided by 3 once more and a second step/2000 column.
C8_DeterministicNotIdempotent ==
  \A k \in 1..Len(observes) :
    LET row == observes[k]
        again == TransformObs(row, k - 1)
    IN  /\ row = Arr(<<1, 2>>, <<RDiv(envRaw[k].data[1], <<3, 1>>),
                                 Rat(k - 1, 2000)>>)
        /\ again # row
        /\ again = Arr(<<1, 3>>, <<RDiv(row.data[1], <<3, 1>>),
                                   RDiv(row.data[2], <<3, 1>>),
                                   Rat(k - 1, 2000)>>)

\* C8, as stated: the transform applied again, with the same step index, to
\* a row it has produced gives that row back.
C8_Idempotent ==
  \A k \in 1..Len(observes) : TransformObs(observes[k], k - 1) = observes[k]

C8_Witness == pc = "ep_return" /\ Len(observes) = MaxEpLen

HasDiscSumRew ==
  /\ "add_disc_sum_rew" \in Range(oplog)
  /\ \A j \in 1..Len(trajectories) : HasKey(trajectories[j], "disc_sum_rew")

\* C3: after add_disc_sum_rew with 0 < gamma < 1, in every trajectory
\* disc_sum_rew has the length T of the rewards,
\* disc_sum_rew[t] = (1-gamma)*r[t] + gamma*disc_sum_rew[t+1] for t < T and
\* disc_sum_rew[T] = (1-gamma)*r[T]: nothing is carried over from one
\* trajectory to the next.
C3_DiscSumRewRecursion ==
  (HasDiscSumRew /\ 0 < gammaUsed[1] /\ gammaUsed[1] < gammaUsed[2]) =>
    \A j \in 1..Len(trajectories) :
      LET r == trajectories[j]["rewards"]
          d == trajectories[j]["disc_sum_rew"]
          T == r.shape[1]
          w == <<gammaUsed[2] - gammaUsed[1], gammaUsed[2]>>
      IN  /\ d.shape = <<T>>
          /\ Len(d.data) = T
          /\ d.data[T] = RMul(w, r.data[T])
          /\ \A t \in 1..(T - 1) :
               d.data[t] = RAdd(RMul(w, r.data[t]),
                                RMul(gammaUsed, d.data[t + 1]))

C3_Witness ==
  /\ HasDiscSumRew
  /\ gammaUsed = <<2, 3>>
  /\ Len(trajectories) = 2
  /\ trajectories[1]["rewards"].shape[1] = MaxEpLen
  /\ trajectories[2]["rewards"].shape[1] = MaxEpLen

\* C4: the default gamma of add_disc_sum_rew is 1, and with gamma = 1 the
\* stored disc_sum_rew is 0 at every timestep of every trajectory (it is
\* not the sum of the future rewards).
C4_GammaOneAllZero ==
  /\ DefaultGamma = <<1, 1>>
  /\ (HasDiscSumRew /\ gammaUsed = <<1, 1>>) =>
       \A j \in 1..Len(trajectories) :
         LET r == trajectories[j]["rewards"]
             d == trajectories[j]["disc_sum_rew"]
         IN  /\ Len(d.data) = Len(r.data)
             /\ \A t \in 1..Len(d.data) : d.data[t] = <<0, 1>>

\* add_disc_sum_rew(trajectories) called without gamma, on non-zero rewards
C4_Witness ==
  /\ HasDiscSumRew
  /\ gammaUsed = <<1, 1>>
  /\ gamma # <<1, 1>>
  /\ Len(trajectories) = 2
  /\ \A j \in 1..2 : \A t \in 1..Len(trajectories[j]["rewards"].data) :
       trajectories[j]["rewards"].data[t][1] # 0

\* C5: a call of add_advantage on trajectories that all have disc_sum_rew
\* and values returns with advantages[t] = disc_sum_rew[t] - values[t] at
\* every timestep of every trajectory, unclipped, and with every other key
\* of every trajectory as it was; on a trajectory that lacks one of the two
\* keys it raises KeyError.
C5_AdvantageStep ==
  [][("add_advantage" \notin Range(oplog) /\ "add_advantage" \in Range(oplog'))
       => IF \A j \in 1..Len(trajectories) :
               /\ HasKey(trajectories[j], "disc_sum_rew")
               /\ HasKey(trajectories[j], "values")
            THEN /\ failed' = "none"
                 /\ Len(trajectories') = Len(trajectories)
                 /\ \A j \in 1..Len(trajectories) :
                      LET old == trajectories[j]
                          new == trajectories'[j]
                      IN  /\ DOMAIN new = DOMAIN old \cup {"advantages"}
                          /\ \A key \in {"observes", "actions", "rewards",
                                         "disc_sum_rew", "values"} :
                               new[key] = old[key]
                          /\ new["advantages"].shape = old["rewards"].shape
                          /\ \A t \in 1..old["rewards"].shape[1] :
                               LET a == new["advantages"].data[t]
                                   d == old["disc_sum_rew"].data[t]
                                   v == old["values"].data[t]
                               IN  a[1] * d[2] * v[2]
                                     = (d[1] * v[2] - v[1] * d[2]) * a[2]
            ELSE failed' = "KeyError" /\ pc' = "aborted"
   ]_vars

\* add_advantage has returned on two trajectories, with a negative advantage
C5_Witness ==
  /\ "add_advantage" \in Range(oplog)
  /\ failed = "none"
  /\ Len(trajectories) = 2
  /\ \E t \in 1..trajectories[1]["rewards"].shape[1] :
       trajectories[1]["advantages"].data[t][1] < 0

Offset(trajs, j) == SumInts(SubSeq(Lens(trajs), 1, j - 1))

\* the four arrays of build_train_set hold, at row Offset(j) + t, what
\* trajectory j holds at timestep t
Aligned(tr, trajs) ==
  LET N == SumInts(Lens(trajs))
      advs == ConcatData(Field(trajs, "advantages"))
      mean == RDiv(RSum(advs), <<N, 1>>)
  IN  /\ tr.observes.shape[1] = N
      /\ tr.actions.shape[1] = N
      /\ tr.advantages.shape = <<N>>
      /\ tr.disc_sum_rew.shape = <<N>>
      /\ Len(tr.advantages.data) = N
      /\ Len(tr.disc_sum_rew.data) = N
      /\ \A j \in 1..Len(trajs) : \A t \in 1..Lens(trajs)[j] :
           LET k == Offset(trajs, j) + t IN
           /\ Row(tr.observes, k) = Row(trajs[j]["observes"], t)
           /\ Row(tr.actions, k) = Row(trajs[j]["actions"], t)
           /\ tr.disc_sum_rew.data[k] = trajs[j]["disc_sum_rew"].data[t]
           /\ tr.advantages.data[k][1]
                = RSub(trajs[j]["advantages"].data[t], mean)

BuildCalledWithKeys ==
  /\ "build_train_set" \in Range(oplog)
  /\ \A j \in 1..Len(trajectories) : TrainKeys \subseteq DOMAIN trajectories[j]

MainOrder == <<"run_policy", "log_iteration", "add_value", "add_disc_sum_rew",
               "add_advantage", "build_train_set", "policy.update",
               "val_func.fit", "lin_val_func.fit", "disp_log">>

IsPrefix(s, t) == Len(s) <= Len(t) /\ s = SubSeq(t, 1, Len(s))

\* C2: in every iteration i = 0 .. num_iter-1 main performs run_policy,
\* log['Iteration'] = i, add_value, add_disc_sum_rew, add_advantage,
\* build_train_set, policy.update(observes, actions, advantages),
\* val_func.fit(observes, disc_sum_rew), lin_val_func.fit(observes,
\* disc_sum_rew), disp_log, once each and in this order; values are on a
\* trajectory before its advantages, and the predictions of iteration i are
\* made before val_func.fit of iteration i.
C2_IterationOrder ==
  /\ IsPrefix(oplog, MainOrder)
  /\ i \in -1..(num_iter - 1)
  /\ (pc = "main_for" /\ i >= 0) =>
       /\ oplog = MainOrder
       /\ displayed[1][1] = i
       /\ vfFits = i + 1
  /\ (pc = "main_done" /\ num_iter >= 0) => i = num_iter - 1
  /\ "log_iteration" \in Range(oplog) => log["Iteration"] = i
  /\ \A j \in 1..Len(trajectories) :
       HasKey(trajectories[j], "advantages") =>
         HasKey(trajectories[j], "values")
  /\ ("add_disc_sum_rew" \in Range(oplog)) =>
       /\ predictedAt = i
       /\ vfFits = IF "val_func.fit" \in Range(oplog)
                      /\ failed # "val_func.fit" THEN i + 1 ELSE i
  /\ (oplog # <<>> /\ oplog[Len(oplog)] = "policy.update") =>
       callArgs = <<"policy.update", train.observes, train.actions,
                    train.advantages>>
  /\ (oplog # <<>> /\ oplog[Len(oplog)] = "val_func.fit") =>
       callArgs = <<"val_func.fit", train.observes, train.disc_sum_rew>>
  /\ (oplog # <<>> /\ oplog[Len(oplog)] = "lin_val_func.fit") =>
       callArgs = <<"lin_val_func.fit", train.observes, train.disc_sum_rew>>

\* the second iteration has been completed
C2_Witness ==
  /\ pc = "main_for" /\ i = 1
  /\ oplog = MainOrder
  /\ failed = "none"

Collaborators == {"env.reset", "env.step", "policy.sample",
                  "val_func.predict", "policy.update", "val_func.fit",
                  "lin_val_func.fit"}

\* C9: once a call of a collaborator has raised, the run is over: nothing
\* changes any more (no later operation of the iteration, no later
\* iteration, no second try of the call), and the iteration it raised in
\* has displayed no log.
C9_FailureAborts ==
  [][/\ failed # "none" => UNCHANGED vars
     /\ failed' # "none" =>
          /\ failed' \in Collaborators
          /\ pc' = "aborted"
          /\ "disp_log" \notin Range(oplog')
    ]_vars

\* val_func.fit has raised in the first of two iterations
C9_Witness ==
  /\ failed = "val_func.fit"
  /\ pc = "aborted"
  /\ i = 0 /\ num_iter = 2

====
